---- MODULE Spec2Model ----
(***************************************************************************)
(* Model of the cooperative agent runtime of Scarmonit/A2A:                *)
(*   src/src/agents/python/greenlet_a2a_agent.py   (GreenletA2AAgent)      *)
(*   src/src/agents/python/greenlet_coordinator.py (GreenletCoordinator)   *)
(*                                                                         *)
(* An agent is a record; its greenlet is the field pc, the place in _run   *)
(* where the task stands ("none": no greenlet yet, "L79": suspended in     *)
(* main_greenlet.switch(), "dead": _run has returned).  The operators      *)
(* handle_message, Drain, Resume, start, stop and receive_message compute  *)
(* what one call does to the agent from the first switch into the task to  *)
(* the switch back.  Spec and SpecAgent take one whole call per step;       *)
(* SpecSteps takes the same calls one switch and one loop step at a time.  *)
(* SpecLive is the coordinator under a caller that calls schedule() for    *)
(* ever; SpecDriver is the stdin driver of greenlet_a2a_agent.py.          *)
(***************************************************************************)
EXTENDS Integers, Sequences, FiniteSets, TLC

\* ------------------------------------------------------------------ bounds
MaxOps == 5            \* calls made by the driving caller in one behaviour
MaxBound == 2          \* max_agents is drawn from 0..MaxBound
MaxAgentOps == 5       \* calls made on the single agent of SpecAgent

Agents == {"a1", "a2", "a3"}          \* agent objects, named by their agent_id
QueueSizes == {0, 3}                  \* max_queue_size values that are tried
DefaultQueueSize == 100               \* __init__'s default max_queue_size
None == [id |-> 0, type |-> "None"]   \* the empty hand-off, switch(None)

\* Message kinds: the three base kinds, a kind the base agent ignores, the
\* empty dict {} (falsy in Python) and a truthy value without .get (raises).
\* "agent.echo" carries a payload; "agent.echo_set" is an agent.echo message
\* whose payload holds a Python set, which json.dumps cannot serialize.
MsgTypes == {"agent.ping", "agent.stop", "agent.metrics", "other", "empty", "bad",
             "agent.echo", "agent.echo_set"}
RouteTypes == {"agent.ping", "agent.stop", "empty", "bad"}

Msg(n, t) ==
    [id |-> n,
     type |-> IF t = "agent.echo_set" THEN "agent.echo" ELSE t,
     data |-> CASE t = "agent.echo" -> "payload"
                [] t = "agent.echo_set" -> "set"
                [] OTHER -> "{}"]

VARIABLES
    max_agents,    \* GreenletCoordinator.max_agents
    agents,        \* GreenletCoordinator.agents: the dict's keys, in insertion order
    agent_queue,   \* GreenletCoordinator.agent_queue: the round-robin rotation
    agent,         \* the agent objects: agent[a] is the record of agent a
    nops,          \* history: number of calls made so far
    last,          \* history: the last call and what it did
    count,         \* history: successful register_agent calls, unregister_agent calls
    run,           \* history: the current run of consecutive schedule() calls
    caller,        \* the driving caller: "idle" between calls, else the call it is in
    driver         \* the reference driver: its place, the lines read, the error channel

vars == <<max_agents, agents, agent_queue, agent, nops, last, count, run, caller, driver>>

\* ------------------------------------------------------------------ helpers
Range(s) == {s[i] : i \in 1..Len(s)}

NoDup(s) == \A i, j \in 1..Len(s) : i # j => s[i] # s[j]

\* list.remove(x): drop the first occurrence of x
RECURSIVE RemoveFirst(_, _)
RemoveFirst(s, x) ==
    IF s = <<>> THEN <<>>
    ELSE IF Head(s) = x THEN Tail(s)
    ELSE <<Head(s)>> \o RemoveFirst(Tail(s), x)

\* `if message:` at line 81: None and {} are falsy
Truthy(m) == m.type \notin {"None", "empty"}

\* message.get('type') raises AttributeError on a value that is no dict
Raises(m) == m.type = "bad"

\* ------------------------------------------------------------------ the agent
\* GreenletA2AAgent.__init__
AgentInit(a, q) ==
    [agent_id |-> a,
     running |-> FALSE,
     maxlen |-> q,
     capabilities |-> "list",   \* "list": a list of strings, "set": a Python set
     echo |-> FALSE,            \* TRUE for an EchoAgent
     message_queue |-> <<>>,
     pc |-> "none",
     arg |-> None,          \* the value the last switch into the task passed
     received |-> 0, sent |-> 0, errors |-> 0,
     last_message_time |-> 0,   \* metrics["last_message_time"]; 0 is None
     out |-> <<>>,          \* the lines printed by _send_message
     handled |-> <<>>,      \* history: ids of the messages given to handle_message
     delivered |-> <<>>,    \* history: <<id, path, running, type>> of each receive_message call
     resumes |-> 0,         \* history: switches into the task after its start
     starts |-> 0,          \* history: start() calls
     stopped |-> FALSE]     \* history: stop() has run since the last start()

\* EchoAgent.__init__: capabilities ["echo"], the default queue size
EchoInit(a) ==
    [AgentInit(a, DefaultQueueSize) EXCEPT !.echo = TRUE]

\* json.dumps(message): raises TypeError when the message holds a set; the
\* capabilities of agent.register and the payload of agent.echo_response are
\* the caller's values, the other fields are strings and numbers
JsonOk(line) ==
    CASE line[1] = "agent.register" -> line[3] # "set"
      [] line[1] = "agent.echo_response" -> line[2] # "set"
      [] OTHER -> TRUE

\* _send_message that prints the line although json.dumps failed
SendMessageAnyway(ag, line) ==
    IF JsonOk(line)
    THEN [ag EXCEPT !.sent = @ + 1, !.out = Append(@, line)]
    ELSE [ag EXCEPT !.sent = @ + 1, !.errors = @ + 1, !.out = Append(@, line)]

\* _send_message: count, serialize, print; a failure is caught and counted
SendMessage(ag, line) ==
    IF JsonOk(line)
    THEN [ag EXCEPT !.sent = @ + 1, !.out = Append(@, line)]
    ELSE [ag EXCEPT !.sent = @ + 1, !.errors = @ + 1]

\* time.time() as handle_message reads it: a clock that has moved on since
\* the message before, here the number of the handle_message call
Now(ag) == Len(ag.handled) + 1

\* lines 60-66: the registration event
RegisterLine(ag) == <<"agent.register", ag.agent_id, ag.capabilities>>

\* a stop() that leaves the running flag set
StopInsideFlagKept(ag) ==
    [ag EXCEPT !.stopped = TRUE]

\* stop() called by the task itself (handle_message of agent.stop): the
\* greenlet is the current one, so agent_greenlet.switch(None) returns at once
StopInside(ag) ==
    [ag EXCEPT !.running = FALSE, !.stopped = TRUE]

\* handle_message whose ping branch never matches
handle_message_no_pong(ag, m) ==
    LET a1 == [ag EXCEPT !.received = @ + 1, !.handled = Append(@, m.id),
                          !.last_message_time = Now(ag)]
    IN  CASE Raises(m) -> a1
          [] m.type = "agent.stop" -> StopInside(a1)
          [] m.type = "agent.metrics" ->
                SendMessage(a1, <<"agent.metrics_response", a1.received,
                                  a1.sent, a1.errors, Len(a1.message_queue)>>)
          [] OTHER -> a1

\* handle_message that counts a message of unknown kind as an error
handle_message_unknown_is_error(ag, m) ==
    LET a1 == [ag EXCEPT !.received = @ + 1, !.handled = Append(@, m.id),
                          !.last_message_time = Now(ag)]
    IN  CASE Raises(m) -> a1
          [] m.type = "agent.ping" ->
                SendMessage(a1, <<"agent.pong", a1.agent_id>>)
          [] m.type = "agent.stop" -> StopInside(a1)
          [] m.type = "agent.metrics" ->
                SendMessage(a1, <<"agent.metrics_response", a1.received,
                                  a1.sent, a1.errors, Len(a1.message_queue)>>)
          [] OTHER -> [a1 EXCEPT !.errors = @ + 1]

\* handle_message whose metrics reply is built after messages_sent is counted
handle_message_late_snapshot(ag, m) ==
    LET a1 == [ag EXCEPT !.received = @ + 1, !.handled = Append(@, m.id),
                          !.last_message_time = Now(ag)]
    IN  CASE Raises(m) -> a1
          [] m.type = "agent.ping" ->
                SendMessage(a1, <<"agent.pong", a1.agent_id>>)
          [] m.type = "agent.stop" -> StopInside(a1)
          [] m.type = "agent.metrics" ->
                SendMessage(a1, <<"agent.metrics_response", a1.received,
                                  a1.sent + 1, a1.errors, Len(a1.message_queue)>>)
          [] OTHER -> a1

\* handle_message, up to the point where it returns or raises
handle_message(ag, m) ==
    LET a1 == [ag EXCEPT !.received = @ + 1, !.handled = Append(@, m.id),
                          !.last_message_time = Now(ag)]
    IN  CASE Raises(m) -> a1
          [] m.type = "agent.ping" ->
                SendMessage(a1, <<"agent.pong", a1.agent_id>>)
          [] m.type = "agent.stop" -> StopInside(a1)
          [] m.type = "agent.metrics" ->
                SendMessage(a1, <<"agent.metrics_response", a1.received,
                                  a1.sent, a1.errors, Len(a1.message_queue)>>)
          [] OTHER -> a1

\* EchoAgent.handle_message that echoes a message of any kind
echo_handle_message_any_kind(ag, m) ==
    LET a1 == handle_message(ag, m)
    IN  IF ~Raises(m)
        THEN SendMessage(a1, <<"agent.echo_response", m.data>>)
        ELSE a1

\* EchoAgent.handle_message with message.get('data', {}) replaced by {}
echo_handle_message_nodata(ag, m) ==
    LET a1 == handle_message(ag, m)
    IN  IF ~Raises(m) /\ m.type = "agent.echo"
        THEN SendMessage(a1, <<"agent.echo_response", "{}">>)
        ELSE a1

\* EchoAgent.handle_message: the base dispatch (which may raise), then the echo
echo_handle_message(ag, m) ==
    LET a1 == handle_message(ag, m)
    IN  IF ~Raises(m) /\ m.type = "agent.echo"
        THEN SendMessage(a1, <<"agent.echo_response", m.data>>)
        ELSE a1

\* the try block without the error count
TryHandleNoCount(ag, m) ==
    IF ag.echo THEN echo_handle_message(ag, m) ELSE handle_message(ag, m)

\* try: handle_message(message) / except Exception: errors += 1
TryHandle(ag, m) ==
    LET a1 == IF ag.echo THEN echo_handle_message(ag, m) ELSE handle_message(ag, m)
    IN  IF Raises(m) THEN [a1 EXCEPT !.errors = @ + 1] ELSE a1

\* lines 70-76: while self.message_queue and self.running: popleft, handle
RECURSIVE Drain(_)
Drain(ag) ==
    IF ag.message_queue # <<>> /\ ag.running
    THEN Drain(TryHandle([ag EXCEPT !.message_queue = Tail(@)],
                         Head(ag.message_queue)))
    ELSE ag

\* the loop as `while True`: the running flag is not looked at
LoopForever(ag) ==
    [Drain(ag) EXCEPT !.pc = "L79"]

\* lines 68-79: the loop test, the drain and the switch back to the caller
LoopToYield(ag) ==
    IF ag.running
    THEN [Drain(ag) EXCEPT !.pc = "L79"]
    ELSE [ag EXCEPT !.pc = "dead"]

\* agent_greenlet.switch(v) on a suspended task: lines 79-89, then the loop
Resume(ag, v) ==
    LET a0 == [ag EXCEPT !.resumes = @ + 1]
        a1 == IF Truthy(v) THEN TryHandle(a0, v) ELSE a0
    IN  LoopToYield(a1)

Alive(ag) == ag.pc = "L79"     \* agent_greenlet and not agent_greenlet.dead

\* start(): a new greenlet runs _run up to its first switch back
start(ag) ==
    LET a0 == [ag EXCEPT !.running = TRUE, !.starts = @ + 1, !.stopped = FALSE]
        a1 == SendMessage(a0, RegisterLine(a0))
    IN  LoopToYield(a1)

\* stop() without the test that the greenlet is not dead
stop_no_dead_check(ag) ==
    LET a0 == [ag EXCEPT !.running = FALSE, !.stopped = TRUE]
    IN  IF a0.pc # "none" THEN Resume(a0, None) ELSE a0

\* stop() called by the driving caller
stop(ag) ==
    LET a0 == [ag EXCEPT !.running = FALSE, !.stopped = TRUE]
    IN  IF Alive(a0) THEN Resume(a0, None) ELSE a0

\* deque(maxlen=n).append(m): a full deque drops its leftmost item to make
\* room, and a deque of maxlen 0 stays empty
DequeAppend(q, m, n) ==
    IF n = 0 THEN <<>>
    ELSE IF Len(q) >= n THEN Append(Tail(q), m)
    ELSE Append(q, m)

\* the delivery path receive_message takes
Path(ag) ==
    IF ~Alive(ag) THEN "ignored"
    ELSE IF Len(ag.message_queue) >= ag.maxlen THEN "bypass" ELSE "queue"

\* receive_message that passes the message to switch() on the queue path too
receive_message_twice(ag, m) ==
    LET a0 == [ag EXCEPT !.delivered = Append(@, <<m.id, Path(ag), ag.running, m.type>>)]
    IN  CASE Path(ag) = "bypass" -> Resume(a0, m)
          [] Path(ag) = "queue" ->
                Resume([a0 EXCEPT !.message_queue = Append(@, m)], m)
          [] OTHER -> a0

\* receive_message that queues the message although no task is alive
receive_message_on_dead(ag, m) ==
    LET a0 == [ag EXCEPT !.delivered = Append(@, <<m.id, Path(ag), ag.running, m.type>>)]
    IN  CASE Path(ag) = "bypass" -> Resume(a0, m)
          [] Path(ag) = "queue" ->
                Resume([a0 EXCEPT !.message_queue = DequeAppend(@, m, ag.maxlen)], None)
          [] OTHER -> [a0 EXCEPT !.message_queue = DequeAppend(@, m, ag.maxlen)]

\* receive_message that queues the message and leaves it to the next quantum
receive_message_no_switch(ag, m) ==
    LET a0 == [ag EXCEPT !.delivered = Append(@, <<m.id, Path(ag), ag.running, m.type>>)]
    IN  CASE Path(ag) = "bypass" -> Resume(a0, m)
          [] Path(ag) = "queue" ->
                [a0 EXCEPT !.message_queue = DequeAppend(@, m, ag.maxlen)]
          [] OTHER -> a0

\* receive_message on a plain list and without the capacity test
receive_message_unbounded(ag, m) ==
    LET a0 == [ag EXCEPT !.delivered = Append(@, <<m.id, Path(ag), ag.running, m.type>>)]
    IN  IF Alive(ag)
        THEN Resume([a0 EXCEPT !.message_queue = Append(@, m)], None)
        ELSE a0

\* receive_message
receive_message(ag, m) ==
    LET a0 == [ag EXCEPT !.delivered = Append(@, <<m.id, Path(ag), ag.running, m.type>>)]
    IN  CASE Path(ag) = "bypass" -> Resume(a0, m)
          [] Path(ag) = "queue" ->
                Resume([a0 EXCEPT !.message_queue = DequeAppend(@, m, ag.maxlen)], None)
          [] OTHER -> a0

\* the id of the next message delivered to ag
NextId(ag) == Len(ag.delivered) + 1

\* ------------------------------------------------------------------ initial state
NoCall == [op |-> "init", id |-> "-", result |-> "-", type |-> "-", before |-> "-"]

\* the record of a call; before is the agent that the call made just before
\* it stopped, when that call was a stop()
Call(o, i, r, t) ==
    [op |-> o, id |-> i, result |-> r, type |-> t,
     before |-> IF last.op = "stop" THEN last.id ELSE "-"]

IdleCaller == [pc |-> "idle", id |-> "-"]

\* no reference driver runs: the caller drives the objects directly
NoDriver == [pc |-> "none", read |-> <<>>, err |-> <<>>]

\* history of a run of schedule() calls: the rotation and the tasks' states when
\* the run began, the number of quanta since, and the agents resumed, in order
NewRun(rotation, ags) ==
    [start |-> rotation,
     n |-> 0,
     resumed |-> <<>>,
     alive0 |-> {a \in Agents : ags[a].pc = "L79"},
     running0 |-> {a \in Agents : ags[a].running}]

Init ==
    /\ max_agents \in 0..MaxBound
    /\ agents = <<>>
    /\ agent_queue = <<>>
    /\ \E q \in QueueSizes : agent = [a \in Agents |-> AgentInit(a, q)]
    /\ nops = 0
    /\ last = NoCall
    /\ count = [reg_ok |-> 0, unreg |-> 0]
    /\ run = NewRun(<<>>, agent)
    /\ caller = IdleCaller
    /\ driver = NoDriver

\* ------------------------------------------------------------------ coordinator
\* the capacity check that counts only the agents whose running flag is set
AtCapacityOfRunning ==
    Cardinality({a \in Range(agents) : agent[a].running}) >= max_agents

\* the capacity check with > for >=
AtCapacityOffByOne == Len(agents) > max_agents

\* line 39: len(self.agents) >= self.max_agents
AtCapacity == Len(agents) >= max_agents

\* the capacity check placed after agent.start()
RegisterRejectedStarted(a) ==
    /\ nops < MaxOps
    /\ AtCapacity
    /\ agent' = [agent EXCEPT ![a] = start(@)]
    /\ nops' = nops + 1
    /\ last' = Call("register_agent", a, "ValueError", "-")
    /\ run' = NewRun(agent_queue, agent')
    /\ UNCHANGED <<caller, max_agents, driver, agents, agent_queue, count>>

\* register_agent when the capacity check raises ValueError
RegisterRejected(a) ==
    /\ nops < MaxOps
    /\ AtCapacity
    /\ nops' = nops + 1
    /\ last' = Call("register_agent", a, "ValueError", "-")
    /\ run' = NewRun(agent_queue, agent)
    /\ UNCHANGED <<caller, max_agents, driver, agents, agent_queue, agent, count>>

\* register_agent when the capacity check passes
RegisterAgent(a) ==
    /\ nops < MaxOps
    /\ ~AtCapacity
    /\ agents' = IF a \in Range(agents) THEN agents ELSE Append(agents, a)
    /\ agent_queue' = Append(agent_queue, a)
    /\ agent' = [agent EXCEPT ![a] = start(@)]
    /\ nops' = nops + 1
    /\ last' = Call("register_agent", a, "ok", "-")
    /\ count' = [count EXCEPT !.reg_ok = @ + 1]
    /\ run' = NewRun(agent_queue', agent')
    /\ UNCHANGED <<caller, max_agents, driver>>

\* unregister_agent without the test that the id is registered
UnregisterAgentUnguarded(id) ==
    /\ nops < MaxOps
    /\ agent' = [agent EXCEPT ![id] = stop(@)]
    /\ agents' = RemoveFirst(agents, id)
    /\ agent_queue' = RemoveFirst(agent_queue, id)
    /\ last' = Call("unregister_agent", id,
                    IF id \in Range(agents) THEN "ok" ELSE "absent", "-")
    /\ nops' = nops + 1
    /\ count' = [count EXCEPT !.unreg = @ + 1]
    /\ run' = NewRun(agent_queue', agent')
    /\ UNCHANGED <<caller, max_agents, driver>>

\* unregister_agent
UnregisterAgent(id) ==
    /\ nops < MaxOps
    /\ IF id \in Range(agents)
       THEN /\ agent' = [agent EXCEPT ![id] = stop(@)]
            /\ agents' = RemoveFirst(agents, id)
            /\ agent_queue' = RemoveFirst(agent_queue, id)
            /\ last' = Call("unregister_agent", id, "ok", "-")
       ELSE /\ UNCHANGED <<agent, agents, agent_queue>>
            /\ last' = Call("unregister_agent", id, "absent", "-")
    /\ nops' = nops + 1
    /\ count' = [count EXCEPT !.unreg = @ + 1]
    /\ run' = NewRun(agent_queue', agent')
    /\ UNCHANGED <<caller, max_agents, driver>>

\* route_message that delivers to the agent object without looking it up
RouteMessageUnchecked(id, t) ==
    /\ nops < MaxOps
    /\ agent' = [agent EXCEPT ![id] = receive_message(@, Msg(NextId(@), t))]
    /\ last' = Call("route_message", id,
                    IF id \in Range(agents) THEN Path(agent[id]) ELSE "not found", t)
    /\ nops' = nops + 1
    /\ run' = NewRun(agent_queue, agent')
    /\ UNCHANGED <<caller, max_agents, driver, agents, agent_queue, count>>

\* route_message that hands the message to every registered agent
RouteMessageBroadcast(id, t) ==
    /\ nops < MaxOps
    /\ IF id \in Range(agents)
       THEN /\ agent' = [b \in Agents |->
                            IF b \in Range(agents)
                            THEN receive_message(agent[b], Msg(NextId(agent[b]), t))
                            ELSE agent[b]]
            /\ last' = Call("route_message", id, Path(agent[id]), t)
       ELSE /\ UNCHANGED agent
            /\ last' = Call("route_message", id, "not found", t)
    /\ nops' = nops + 1
    /\ run' = NewRun(agent_queue, agent')
    /\ UNCHANGED <<caller, max_agents, driver, agents, agent_queue, count>>

\* route_message
RouteMessage(id, t) ==
    /\ nops < MaxOps
    /\ IF id \in Range(agents)
       THEN /\ agent' = [agent EXCEPT ![id] = receive_message(@, Msg(NextId(@), t))]
            /\ last' = Call("route_message", id, Path(agent[id]), t)
       ELSE /\ UNCHANGED agent
            /\ last' = Call("route_message", id, "not found", t)
    /\ nops' = nops + 1
    /\ run' = NewRun(agent_queue, agent')
    /\ UNCHANGED <<caller, max_agents, driver, agents, agent_queue, count>>

\* the rotation without the re-append of line 72
RotateDropsHead(q) == Tail(q)

\* lines 71-72: agent_queue.pop(0), then append it at the tail
Rotate(q) == Append(Tail(q), Head(q))

\* schedule that resumes a registered agent whose task has finished
ScheduleResumesFinished ==
    /\ nops < MaxOps
    /\ IF agent_queue = <<>>
       THEN /\ UNCHANGED <<agent_queue, agent, run>>
            /\ last' = Call("schedule", "-", "empty", "-")
       ELSE LET agent_id == Head(agent_queue)
            IN  /\ agent_queue' = Rotate(agent_queue)
                /\ IF agent_id \in Range(agents)
                   THEN /\ agent' = [agent EXCEPT ![agent_id] = Resume(@, None)]
                        /\ last' = Call("schedule", agent_id, "resumed", "-")
                        /\ run' = [run EXCEPT !.n = @ + 1,
                                              !.resumed = Append(@, agent_id)]
                   ELSE /\ UNCHANGED agent
                        /\ last' = Call("schedule", agent_id, "skipped", "-")
                        /\ run' = [run EXCEPT !.n = @ + 1]
    /\ nops' = nops + 1
    /\ UNCHANGED <<caller, max_agents, driver, agents, count>>

\* schedule
Schedule ==
    /\ nops < MaxOps
    /\ IF agent_queue = <<>>
       THEN /\ UNCHANGED <<agent_queue, agent, run>>
            /\ last' = Call("schedule", "-", "empty", "-")
       ELSE LET agent_id == Head(agent_queue)
            IN  /\ agent_queue' = Rotate(agent_queue)
                /\ IF agent_id \in Range(agents) /\ Alive(agent[agent_id])
                   THEN /\ agent' = [agent EXCEPT ![agent_id] = Resume(@, None)]
                        /\ last' = Call("schedule", agent_id, "resumed", "-")
                        /\ run' = [run EXCEPT !.n = @ + 1,
                                              !.resumed = Append(@, agent_id)]
                   ELSE /\ UNCHANGED agent
                        /\ last' = Call("schedule", agent_id, "skipped", "-")
                        /\ run' = [run EXCEPT !.n = @ + 1]
    /\ nops' = nops + 1
    /\ UNCHANGED <<caller, max_agents, driver, agents, count>>

\* agent.stop() called by the driving caller on the agent object
AgentStop(a) ==
    /\ nops < MaxOps
    /\ agent' = [agent EXCEPT ![a] = stop(@)]
    /\ nops' = nops + 1
    /\ last' = Call("stop", a, "ok", "-")
    /\ run' = NewRun(agent_queue, agent')
    /\ UNCHANGED <<caller, max_agents, driver, agents, agent_queue, count>>

\* get_stats that counts and lists the rotation in place of the registry
get_stats_of_rotation ==
    [total_agents |-> Len(agent_queue),
     max_agents |-> max_agents,
     agent_ids |-> agent_queue]

\* lines 82-86: the dict that get_stats returns
get_stats ==
    [total_agents |-> Len(agents),
     max_agents |-> max_agents,
     agent_ids |-> agents]

\* get_stats called by the driving caller
GetStats ==
    /\ nops < MaxOps
    /\ nops' = nops + 1
    /\ last' = Call("get_stats", "-", get_stats, "-")
    /\ run' = NewRun(agent_queue, agent)
    /\ UNCHANGED <<caller, max_agents, driver, agents, agent_queue, agent, count>>

Next ==
    \/ \E a \in Agents : RegisterRejected(a)
    \/ \E a \in Agents : RegisterAgent(a)
    \/ \E id \in Agents : UnregisterAgent(id)
    \/ \E id \in Agents, t \in RouteTypes : RouteMessage(id, t)
    \/ Schedule
    \/ \E a \in Agents : AgentStop(a)
    \/ GetStats

Spec == Init /\ [][Next]_vars

\* ------------------------------------------------------------------ the scheduler loop
\* The caller of the coordinator's __main__ block: some calls that set the
\* agents up, and `while True: coordinator.schedule()` for ever.  The loop's
\* quanta are not counted in nops and in resumes, and run counts them up to one
\* full rotation only, so that the loop can go on for ever in a finite model.
MaxLiveOps == 3        \* calls other than the loop's schedule() in one behaviour

\* one turn of the loop at lines 104-106: coordinator.schedule()
ScheduleLoop ==
    /\ agent_queue # <<>>
    /\ LET agent_id == Head(agent_queue)
           more == run.n < Len(run.start)
       IN  /\ agent_queue' = Rotate(agent_queue)
           /\ IF agent_id \in Range(agents) /\ Alive(agent[agent_id])
              THEN /\ agent' = [agent EXCEPT ![agent_id] =
                                  [Resume(@, None) EXCEPT !.resumes = agent[agent_id].resumes]]
                   /\ run' = IF more
                             THEN [run EXCEPT !.n = @ + 1, !.resumed = Append(@, agent_id)]
                             ELSE run
              ELSE /\ UNCHANGED agent
                   /\ run' = IF more THEN [run EXCEPT !.n = @ + 1] ELSE run
    /\ UNCHANGED <<caller, max_agents, driver, agents, nops, last, count>>

NextLive ==
    \/ nops < MaxLiveOps /\ \E a \in Agents : RegisterRejected(a)
    \/ nops < MaxLiveOps /\ \E a \in Agents : RegisterAgent(a)
    \/ nops < MaxLiveOps /\ \E id \in Agents : UnregisterAgent(id)
    \/ nops < MaxLiveOps /\ \E id \in Agents, t \in RouteTypes : RouteMessage(id, t)
    \/ nops < MaxLiveOps /\ \E a \in Agents : AgentStop(a)
    \/ ScheduleLoop

\* the loop never stops calling schedule(): weak fairness on its turn
SpecLive == Init /\ [][NextLive]_vars /\ WF_vars(ScheduleLoop)

\* ------------------------------------------------------------------ one agent
\* The agent "a1" driven directly, without a coordinator, with every message kind.
TheAgent == "a1"

\* the agents that are tried: a base agent with each queue size and with
\* capabilities given as a list or as a set, and an EchoAgent
AgentVariants ==
    {[AgentInit(TheAgent, q) EXCEPT !.capabilities = c] :
        q \in QueueSizes, c \in {"list", "set"}}
    \cup {EchoInit(TheAgent)}

InitAgent ==
    /\ max_agents = 0
    /\ agents = <<>>
    /\ agent_queue = <<>>
    /\ \E v \in AgentVariants :
          agent = [a \in Agents |->
                      IF a = TheAgent THEN v ELSE AgentInit(a, DefaultQueueSize)]
    /\ nops = 0
    /\ last = NoCall
    /\ count = [reg_ok |-> 0, unreg |-> 0]
    /\ run = NewRun(<<>>, agent)
    /\ caller = IdleCaller
    /\ driver = NoDriver

\* agent.start() called by the driving caller
DirectStart ==
    /\ nops < MaxAgentOps
    /\ agent' = [agent EXCEPT ![TheAgent] = start(@)]
    /\ nops' = nops + 1
    /\ last' = Call("start", TheAgent, "ok", "-")
    /\ UNCHANGED <<caller, max_agents, driver, agents, agent_queue, count, run>>

\* agent.stop() called by the driving caller
DirectStop ==
    /\ nops < MaxAgentOps
    /\ agent' = [agent EXCEPT ![TheAgent] = stop(@)]
    /\ nops' = nops + 1
    /\ last' = Call("stop", TheAgent, "ok", "-")
    /\ UNCHANGED <<caller, max_agents, driver, agents, agent_queue, count, run>>

\* agent.receive_message(message) called by the driving caller
DirectReceive(t) ==
    /\ nops < MaxAgentOps
    /\ agent' = [agent EXCEPT ![TheAgent] = receive_message(@, Msg(NextId(@), t))]
    /\ nops' = nops + 1
    /\ last' = Call("receive_message", TheAgent, Path(agent[TheAgent]), t)
    /\ UNCHANGED <<caller, max_agents, driver, agents, agent_queue, count, run>>

NextAgent ==
    \/ DirectStart
    \/ DirectStop
    \/ \E t \in MsgTypes : DirectReceive(t)

SpecAgent == InitAgent /\ [][NextAgent]_vars

\* ------------------------------------------------------------------ switch by switch
\* The same calls, one greenlet switch and one step of _run at a time.  A task
\* that executes stands at "L60" (about to send agent.register), "L68" (the loop
\* test), "L70" (the drain loop) or "L81" (just resumed at line 79 with a value).
MaxStepOps == 4        \* calls made by the driving caller in SpecSteps

ExecPcs == {"L60", "L68", "L70", "L81"}

Executing == {a \in Agents : agent[a].pc \in ExecPcs}

InCall(o, i) == [pc |-> o, id |-> i]

\* agent_greenlet.switch(v) into a suspended task: it wakes at line 79 with v
SwitchIn(ag, v) ==
    [ag EXCEPT !.pc = "L81", !.arg = v, !.resumes = @ + 1]

\* lines 45-49: start() up to the first switch into the new greenlet
StartTask(ag) ==
    [ag EXCEPT !.running = TRUE, !.starts = @ + 1, !.stopped = FALSE,
               !.pc = "L60", !.arg = None]

\* a switch back to the caller ends the call that the caller is in;
\* unregister_agent then runs its lines 51-53
ReturnToCaller ==
    /\ caller' = IdleCaller
    /\ IF caller.pc = "unregister_agent"
       THEN /\ agents' = RemoveFirst(agents, caller.id)
            /\ agent_queue' = RemoveFirst(agent_queue, caller.id)
       ELSE UNCHANGED <<agents, agent_queue>>

StepRegister(a) ==
    /\ caller = IdleCaller /\ nops < MaxStepOps
    /\ ~AtCapacity
    /\ agents' = IF a \in Range(agents) THEN agents ELSE Append(agents, a)
    /\ agent_queue' = Append(agent_queue, a)
    /\ agent' = [agent EXCEPT ![a] = StartTask(@)]
    /\ caller' = InCall("start", a)
    /\ nops' = nops + 1
    /\ last' = Call("register_agent", a, "ok", "-")
    /\ UNCHANGED <<max_agents, driver, count, run>>

StepRegisterRejected(a) ==
    /\ caller = IdleCaller /\ nops < MaxStepOps
    /\ AtCapacity
    /\ nops' = nops + 1
    /\ last' = Call("register_agent", a, "ValueError", "-")
    /\ UNCHANGED <<max_agents, driver, agents, agent_queue, agent, count, run, caller>>

\* stop() that switches into the task without clearing the running flag
StepStopFlagKept(a) ==
    /\ caller = IdleCaller /\ nops < MaxStepOps
    /\ LET a0 == [agent[a] EXCEPT !.stopped = TRUE]
       IN  IF Alive(a0)
           THEN /\ agent' = [agent EXCEPT ![a] = SwitchIn(a0, None)]
                /\ caller' = InCall("stop", a)
           ELSE /\ agent' = [agent EXCEPT ![a] = a0]
                /\ UNCHANGED caller
    /\ nops' = nops + 1
    /\ last' = Call("stop", a, "ok", "-")
    /\ UNCHANGED <<max_agents, driver, agents, agent_queue, count, run>>

\* lines 53-55: stop() called by the driving caller
StepStop(a) ==
    /\ caller = IdleCaller /\ nops < MaxStepOps
    /\ LET a0 == [agent[a] EXCEPT !.running = FALSE, !.stopped = TRUE]
       IN  IF Alive(a0)
           THEN /\ agent' = [agent EXCEPT ![a] = SwitchIn(a0, None)]
                /\ caller' = InCall("stop", a)
           ELSE /\ agent' = [agent EXCEPT ![a] = a0]
                /\ UNCHANGED caller
    /\ nops' = nops + 1
    /\ last' = Call("stop", a, "ok", "-")
    /\ UNCHANGED <<max_agents, driver, agents, agent_queue, count, run>>

StepUnregister(id) ==
    /\ caller = IdleCaller /\ nops < MaxStepOps
    /\ IF id \in Range(agents)
       THEN LET a0 == [agent[id] EXCEPT !.running = FALSE, !.stopped = TRUE]
            IN  /\ last' = Call("unregister_agent", id, "ok", "-")
                /\ IF Alive(a0)
                   THEN /\ agent' = [agent EXCEPT ![id] = SwitchIn(a0, None)]
                        /\ caller' = InCall("unregister_agent", id)
                        /\ UNCHANGED <<agents, agent_queue>>
                   ELSE /\ agent' = [agent EXCEPT ![id] = a0]
                        /\ agents' = RemoveFirst(agents, id)
                        /\ agent_queue' = RemoveFirst(agent_queue, id)
                        /\ UNCHANGED caller
       ELSE /\ last' = Call("unregister_agent", id, "absent", "-")
            /\ UNCHANGED <<agent, agents, agent_queue, caller>>
    /\ nops' = nops + 1
    /\ UNCHANGED <<max_agents, driver, count, run>>

\* lines 141-147 up to the switch, reached through route_message
StepRoute(id, t) ==
    /\ caller = IdleCaller /\ nops < MaxStepOps
    /\ IF id \in Range(agents)
       THEN LET ag == agent[id]
                m == Msg(NextId(ag), t)
                a0 == [ag EXCEPT !.delivered = Append(@, <<m.id, Path(ag), ag.running, m.type>>)]
            IN  /\ last' = Call("route_message", id, Path(ag), t)
                /\ CASE Path(ag) = "bypass" ->
                          /\ agent' = [agent EXCEPT ![id] = SwitchIn(a0, m)]
                          /\ caller' = InCall("receive_message", id)
                     [] Path(ag) = "queue" ->
                          /\ agent' = [agent EXCEPT ![id] =
                                SwitchIn([a0 EXCEPT !.message_queue =
                                            DequeAppend(@, m, ag.maxlen)], None)]
                          /\ caller' = InCall("receive_message", id)
                     [] OTHER ->
                          /\ agent' = [agent EXCEPT ![id] = a0]
                          /\ UNCHANGED caller
       ELSE /\ last' = Call("route_message", id, "not found", t)
            /\ UNCHANGED <<agent, caller>>
    /\ nops' = nops + 1
    /\ UNCHANGED <<max_agents, driver, agents, agent_queue, count, run>>

StepSchedule ==
    /\ caller = IdleCaller /\ nops < MaxStepOps
    /\ IF agent_queue = <<>>
       THEN /\ UNCHANGED <<agent_queue, agent, caller>>
            /\ last' = Call("schedule", "-", "empty", "-")
       ELSE LET agent_id == Head(agent_queue)
            IN  /\ agent_queue' = Rotate(agent_queue)
                /\ IF agent_id \in Range(agents) /\ Alive(agent[agent_id])
                   THEN /\ agent' = [agent EXCEPT ![agent_id] = SwitchIn(@, None)]
                        /\ caller' = InCall("schedule", agent_id)
                        /\ last' = Call("schedule", agent_id, "resumed", "-")
                   ELSE /\ UNCHANGED <<agent, caller>>
                        /\ last' = Call("schedule", agent_id, "skipped", "-")
    /\ nops' = nops + 1
    /\ UNCHANGED <<max_agents, driver, agents, count, run>>

\* get_stats switches to no task: it returns at once
StepGetStats ==
    /\ caller = IdleCaller /\ nops < MaxStepOps
    /\ nops' = nops + 1
    /\ last' = Call("get_stats", "-", get_stats, "-")
    /\ UNCHANGED <<max_agents, driver, agents, agent_queue, agent, count, run, caller>>

\* lines 60-66: the registration event
TaskRegister(a) ==
    /\ agent[a].pc = "L60"
    /\ agent' = [agent EXCEPT ![a] =
          [SendMessage(@, RegisterLine(@)) EXCEPT !.pc = "L68"]]
    /\ UNCHANGED <<max_agents, driver, agents, agent_queue, nops, last, count, run, caller>>

\* line 68, running: enter the loop body
TaskLoop(a) ==
    /\ agent[a].pc = "L68" /\ agent[a].running
    /\ agent' = [agent EXCEPT ![a].pc = "L70"]
    /\ UNCHANGED <<max_agents, driver, agents, agent_queue, nops, last, count, run, caller>>

\* a task that ends without handing control back to its parent
TaskExitNoReturn(a) ==
    /\ agent[a].pc = "L68" /\ ~agent[a].running
    /\ agent' = [agent EXCEPT ![a].pc = "dead"]
    /\ UNCHANGED <<max_agents, driver, agents, agent_queue, nops, last, count, run, caller>>

\* line 68, not running: _run returns, the greenlet is dead, its parent resumes
TaskExit(a) ==
    /\ agent[a].pc = "L68" /\ ~agent[a].running
    /\ agent' = [agent EXCEPT ![a].pc = "dead"]
    /\ ReturnToCaller
    /\ UNCHANGED <<max_agents, driver, nops, last, count, run>>

\* lines 70-76: one turn of the drain loop
TaskDrainOne(a) ==
    /\ agent[a].pc = "L70"
    /\ agent[a].message_queue # <<>> /\ agent[a].running
    /\ agent' = [agent EXCEPT ![a] =
          TryHandle([@ EXCEPT !.message_queue = Tail(@)], Head(@.message_queue))]
    /\ UNCHANGED <<max_agents, driver, agents, agent_queue, nops, last, count, run, caller>>

\* a yield that lets the caller go on while the task keeps running
TaskYieldNoSuspend(a) ==
    /\ agent[a].pc = "L70"
    /\ ~(agent[a].message_queue # <<>> /\ agent[a].running)
    /\ agent' = [agent EXCEPT ![a].pc = "L68"]
    /\ ReturnToCaller
    /\ UNCHANGED <<max_agents, driver, nops, last, count, run>>

\* a yield taken before the drain loop has emptied the queue
TaskYieldEarly(a) ==
    /\ agent[a].pc = "L70"
    /\ agent' = [agent EXCEPT ![a].pc = "L79"]
    /\ ReturnToCaller
    /\ UNCHANGED <<max_agents, driver, nops, last, count, run>>

\* line 79: main_greenlet.switch(), the task suspends and the caller resumes
TaskYield(a) ==
    /\ agent[a].pc = "L70"
    /\ ~(agent[a].message_queue # <<>> /\ agent[a].running)
    /\ agent' = [agent EXCEPT ![a].pc = "L79"]
    /\ ReturnToCaller
    /\ UNCHANGED <<max_agents, driver, nops, last, count, run>>

\* lines 79-89: the task wakes with the hand-off value and handles it if truthy
TaskWake(a) ==
    /\ agent[a].pc = "L81"
    /\ agent' = [agent EXCEPT ![a] =
          [(IF Truthy(@.arg) THEN TryHandle(@, @.arg) ELSE @)
              EXCEPT !.pc = "L68", !.arg = None]]
    /\ UNCHANGED <<max_agents, driver, agents, agent_queue, nops, last, count, run, caller>>

NextSteps ==
    \/ \E a \in Agents : StepRegister(a)
    \/ \E a \in Agents : StepRegisterRejected(a)
    \/ \E a \in Agents : StepStop(a)
    \/ \E id \in Agents : StepUnregister(id)
    \/ \E id \in Agents, t \in RouteTypes : StepRoute(id, t)
    \/ StepSchedule
    \/ StepGetStats
    \/ \E a \in Agents : TaskRegister(a)
    \/ \E a \in Agents : TaskLoop(a)
    \/ \E a \in Agents : TaskExit(a)
    \/ \E a \in Agents : TaskDrainOne(a)
    \/ \E a \in Agents : TaskYield(a)
    \/ \E a \in Agents : TaskWake(a)

SpecSteps == Init /\ [][NextSteps]_vars

\* a step of the task that holds control
TaskStep ==
    \E a \in Agents :
        \/ TaskRegister(a) \/ TaskLoop(a) \/ TaskExit(a)
        \/ TaskDrainOne(a) \/ TaskYield(a) \/ TaskWake(a)

\* the interpreter keeps executing the task that holds control: every
\* statement of _run and every handler returns
SpecStepsFair == SpecSteps /\ WF_vars(TaskStep)

\* ------------------------------------------------------------------ reference driver
\* The __main__ block of greenlet_a2a_agent.py: one EchoAgent fed from stdin.
MaxLines == 4          \* lines read from stdin in one behaviour

\* What a line of stdin is to json.loads(line.strip()): the text of a message
\* of one of the kinds (JSON holds no set), text that is no JSON ("malformed":
\* JSONDecodeError), or JSON that json.loads gives up on with another exception
\* ("overflow": ValueError for an integer of more than 4300 digits,
\* RecursionError for arrays nested too deep).
LineKinds == (MsgTypes \ {"agent.echo_set"}) \cup {"malformed", "overflow"}

json_loads(k) ==
    CASE k = "malformed" -> "JSONDecodeError"
      [] k = "overflow" -> "ValueError"
      [] OTHER -> "value"

\* line 169: agent = EchoAgent(), not started yet
InitDriver ==
    /\ max_agents = 0
    /\ agents = <<>>
    /\ agent_queue = <<>>
    /\ agent = [a \in Agents |->
                   IF a = TheAgent THEN EchoInit("echo-agent")
                   ELSE AgentInit(a, DefaultQueueSize)]
    /\ nops = 0
    /\ last = NoCall
    /\ count = [reg_ok |-> 0, unreg |-> 0]
    /\ run = NewRun(<<>>, agent)
    /\ caller = IdleCaller
    /\ driver = [pc |-> "start", read |-> <<>>, err |-> <<>>]

\* line 170: agent.start()
DriverStart ==
    /\ driver.pc = "start"
    /\ agent' = [agent EXCEPT ![TheAgent] = start(@)]
    /\ driver' = [driver EXCEPT !.pc = "read"]
    /\ UNCHANGED <<max_agents, agents, agent_queue, nops, last, count, run, caller>>

\* lines 174-179: one turn of `for line in sys.stdin`.  JSONDecodeError is
\* the only exception the inner try catches; any other one leaves the loop and,
\* being no KeyboardInterrupt, the program.
DriverRead(k) ==
    /\ driver.pc = "read"
    /\ Len(driver.read) < MaxLines
    /\ CASE json_loads(k) = "value" ->
               /\ agent' = [agent EXCEPT ![TheAgent] =
                               receive_message(@, Msg(NextId(@), k))]
               /\ driver' = [driver EXCEPT !.read = Append(@, k)]
         [] json_loads(k) = "JSONDecodeError" ->
               /\ driver' = [driver EXCEPT !.read = Append(@, k),
                                           !.err = Append(@, Len(driver.read) + 1)]
               /\ UNCHANGED agent
         [] OTHER ->
               /\ driver' = [driver EXCEPT !.read = Append(@, k), !.pc = "crashed"]
               /\ UNCHANGED agent
    /\ UNCHANGED <<max_agents, agents, agent_queue, nops, last, count, run, caller>>

\* end of input: the for loop ends and the program with it
DriverEof ==
    /\ driver.pc = "read"
    /\ driver' = [driver EXCEPT !.pc = "done"]
    /\ UNCHANGED <<max_agents, agents, agent_queue, agent, nops, last, count, run, caller>>

\* lines 180-181: KeyboardInterrupt while the loop waits for a line
DriverInterrupt ==
    /\ driver.pc = "read"
    /\ agent' = [agent EXCEPT ![TheAgent] = stop(@)]
    /\ driver' = [driver EXCEPT !.pc = "interrupted"]
    /\ UNCHANGED <<max_agents, agents, agent_queue, nops, last, count, run, caller>>

NextDriver ==
    \/ DriverStart
    \/ \E k \in LineKinds : DriverRead(k)
    \/ DriverEof
    \/ DriverInterrupt

SpecDriver == InitDriver /\ [][NextDriver]_vars

\* ------------------------------------------------------------------ properties
Count(s, x) == Cardinality({i \in 1..Len(s) : s[i] = x})

\* the receive_message calls of agent a made while a was Running with a live task
RunningDeliveries(a) ==
    {i \in 1..Len(agent[a].delivered) :
        agent[a].delivered[i][2] # "ignored" /\ agent[a].delivered[i][3]}

\* C1: every message passed to receive_message of a Running agent, through the
\* queue or through the overflow bypass, has been given to handle_message
\* exactly once when the call has returned.
C1_HandledExactlyOnce ==
    \A a \in Agents : \A i \in RunningDeliveries(a) :
        Count(agent[a].handled, agent[a].delivered[i][1]) = 1

\* C2: the rotation is exactly the registry's key set: same length, no duplicate.
C2_RotationIsRegistry ==
    /\ Len(agent_queue) = Len(agents)
    /\ NoDup(agent_queue)
    /\ Range(agent_queue) = Range(agents)

\* C3: the number of registered agents never exceeds the coordinator's bound.
C3_BoundRespected == Len(agents) <= max_agents

C3_Witness ==
    /\ last.op = "register_agent" /\ last.result = "ValueError"
    /\ max_agents > 0
    /\ Len(agents) = max_agents

\* C4: register_agent at capacity fails with the capacity error and changes
\* neither the registry, nor the rotation, nor any agent (the rejected agent
\* is not started: no task, no registration event, flags and counters as before).
C4_RejectionChangesNothing ==
    [][\A a \in Agents :
          (AtCapacity /\ last'.op = "register_agent" /\ last'.id = a /\ nops' = nops + 1)
          => /\ last'.result = "ValueError"
             /\ agents' = agents
             /\ agent_queue' = agent_queue
             /\ agent' = agent]_vars

C4_Witness ==
    /\ last.op = "register_agent" /\ last.result = "ValueError"
    /\ Len(agents) > 0
    /\ agent[last.id].pc = "none" /\ agent[last.id].out = <<>>
    /\ ~agent[last.id].running

\* C5: with no unregistration so far, the registry size equals the number of
\* register_agent calls that succeeded.
C5_SizeIsSuccessCount ==
    count.unreg = 0 => Len(agents) = count.reg_ok

\* C6 as claimed: after exactly N consecutive schedule() calls with N agents
\* registered, every registered agent has been resumed exactly once and the
\* rotation is in its starting order.
C6_EveryAgentOneQuantum ==
    (run.n > 0 /\ run.n = Len(agents))
    => /\ agent_queue = run.start
       /\ \A a \in Range(agents) : Count(run.resumed, a) = 1

\* C6 as amended: after exactly len(rotation) consecutive schedule() calls the
\* rotation is in its starting order; an agent that was registered and Running
\* when the calls began has been resumed once per occurrence of its id in the
\* rotation, a registered agent that had stopped itself and was still suspended
\* has been resumed exactly once, and every other agent not at all.
C6_RoundRobin ==
    (run.n > 0 /\ run.n = Len(run.start))
    => /\ agent_queue = run.start
       /\ \A a \in Agents :
             Count(run.resumed, a) =
                IF a \in Range(agents) /\ a \in run.alive0
                THEN IF a \in run.running0 THEN Count(run.start, a)
                     ELSE IF Count(run.start, a) > 0 THEN 1 ELSE 0
                ELSE 0

C6_Witness ==
    /\ run.n = 2 /\ Len(run.start) = 2 /\ NoDup(run.start)
    /\ Len(run.resumed) = 1

\* C8: once an agent is Stopped (stop() has run and its running flag is false),
\* no later receive_message, route_message or schedule() call resumes its task.
C8_StoppedNeverResumed ==
    [][\A a \in Agents :
          (/\ agent[a].stopped /\ ~agent[a].running
           /\ last'.op \in {"receive_message", "route_message", "schedule"}
           /\ nops' = nops + 1)
          => agent'[a].resumes = agent[a].resumes]_vars

\* the ids of the messages appended to the queue of Running agent a, in
\* delivery order
QueuedIds(a) ==
    LET viaQueue(d) == d[2] = "queue" /\ d[3]
        ds == SelectSeq(agent[a].delivered, viaQueue)
    IN  [i \in 1..Len(ds) |-> ds[i][1]]

\* C9: the messages delivered to a Running agent through the bounded queue are
\* given to handle_message in exactly their delivery order.
C9_Fifo ==
    \A a \in Agents :
        LET q == QueuedIds(a)
            queued(id) == id \in Range(q)
        IN  SelectSeq(agent[a].handled, queued) = q

C9_Witness ==
    /\ agent[TheAgent].maxlen = 3
    /\ QueuedIds(TheAgent) = <<1, 2, 3>>
    /\ agent[TheAgent].handled = <<1, 2, 3>>

\* C10: a message that receive_message delivers to a Running agent whose queue
\* is at capacity is handled through the bypass, exactly once: it is not lost.
C10_BypassNotLost ==
    \A a \in Agents : \A i \in RunningDeliveries(a) :
        agent[a].delivered[i][2] = "bypass"
        => Count(agent[a].handled, agent[a].delivered[i][1]) = 1

\* C7: at most one agent task executes at any instant.  Either the driving
\* caller holds control and every task is suspended, not started or finished,
\* or the caller is inside a call and exactly one task, the one that call
\* switched to, executes.
C7_OneAtATime ==
    IF caller = IdleCaller
    THEN Executing = {}
    ELSE Executing = {caller.id}

C7_Witness ==
    /\ caller.pc = "schedule"
    /\ Executing = {caller.id}
    /\ \E b \in Agents \ {caller.id} : agent[b].pc = "L79"

\* a call has just been made (the step is no stuttering step)
Called(o) == last'.op = o /\ nops' = nops + 1

\* agent a is Running: its flag is set and its task is suspended at the yield
Running(ag) == ag.running /\ Alive(ag)

\* C11: stop() is idempotent: the second of two consecutive stop() calls on an
\* agent raises nothing and changes no state (no resume, no output, no
\* counter), and the agent is Stopped after it.
C11_StopIdempotent ==
    [][(Called("stop") /\ last'.before = last'.id)
       => /\ last'.result = "ok"
          /\ agent' = agent
          /\ ~agent'[last'.id].running
          /\ ~Alive(agent'[last'.id])]_vars

C11_Witness ==
    /\ last.op = "stop" /\ last.before = last.id
    /\ agent[last.id].starts > 0
    /\ agent[last.id].pc = "dead"

\* C12: an agent that has reached Stopped (started, then stopped) never becomes
\* Running again, and an agent gets a task only through start().
C12_StoppedIsTerminal ==
    [][\A a \in Agents :
          /\ (agent[a].starts > 0 /\ agent[a].stopped /\ ~agent[a].running)
                => ~agent'[a].running
          /\ (agent[a].pc = "none" /\ agent'[a].pc # "none")
                => agent'[a].starts = agent[a].starts + 1]_vars

\* C13: a handler error is isolated: when handle_message raises for a message
\* given to a Running agent, in the drain or in the hand-off position, the call
\* returns normally, the errors counter has grown by exactly one, and the agent
\* is Running and suspended again, ready to accept the next message.
C13_HandlerErrorIsolated ==
    [][(Called("receive_message") /\ last'.type = "bad" /\ Running(agent[last'.id]))
       => LET a == last'.id
          IN  /\ last'.result \in {"queue", "bypass"}
              /\ agent'[a].errors = agent[a].errors + 1
              /\ agent'[a].handled = Append(agent[a].handled, NextId(agent[a]))
              /\ Running(agent'[a])
              /\ Path(agent'[a]) # "ignored"]_vars

C13_Witness ==
    LET ag == agent[TheAgent]
    IN  /\ Running(ag)
        /\ ag.errors = 1
        /\ \E i, j \in 1..Len(ag.delivered) :
              /\ i < j
              /\ ag.delivered[i][4] = "bad" /\ ag.delivered[i][2] = "bypass"
              /\ ag.delivered[j][1] \in Range(ag.handled)

\* C14: unregister_agent on an id that is not registered raises nothing and
\* leaves the registry, the rotation and every agent unchanged.
C14_UnregisterAbsent ==
    [][(Called("unregister_agent") /\ last'.id \notin Range(agents))
       => /\ last'.result = "absent"
          /\ agents' = agents
          /\ agent_queue' = agent_queue
          /\ agent' = agent]_vars

C14_Witness ==
    /\ last.op = "unregister_agent" /\ last.result = "absent"
    /\ Len(agents) > 0

\* C15: unregister_agent on a registered id stops that agent (task finished,
\* running flag false), removes the id from the registry and from the
\* rotation, keeps the order of the other ids, and the registry shrinks by one.
C15_UnregisterRegistered ==
    [][(Called("unregister_agent") /\ last'.id \in Range(agents))
       => LET id == last'.id
              other(x) == x # id
          IN  /\ ~agent'[id].running
              /\ agent'[id].pc = "dead"
              /\ id \notin Range(agents')
              /\ Len(agents') = Len(agents) - 1
              /\ id \notin Range(agent_queue')
              /\ agent_queue' = SelectSeq(agent_queue, other)]_vars

\* C16: a successful register_agent inserts the agent under its id, appends the
\* id at the tail of the rotation and starts the agent: when the call returns
\* the agent is Running, suspended awaiting its first resume.
C16_RegisterStarts ==
    [][(Called("register_agent") /\ last'.result = "ok")
       => LET a == last'.id
          IN  /\ a \in Range(agents')
              /\ agent_queue' = Append(agent_queue, a)
              /\ agent'[a].running
              /\ agent'[a].pc = "L79"]_vars

\* C17: routing agent.ping to a registered Running agent yields exactly one
\* agent.pong carrying that agent's id, its received counter grows by exactly
\* one, and no other agent emits anything.
C17_PingPong ==
    [][(/\ Called("route_message") /\ last'.type = "agent.ping"
        /\ last'.id \in Range(agents) /\ Running(agent[last'.id]))
       => LET a == last'.id
          IN  /\ agent'[a].out = Append(agent[a].out, <<"agent.pong", a>>)
              /\ agent'[a].received = agent[a].received + 1
              /\ \A b \in Agents \ {a} : agent'[b].out = agent[b].out]_vars

C17_Witness ==
    /\ last.op = "route_message" /\ last.type = "agent.ping"
    /\ Len(agents) = 2
    /\ agent[last.id].received = 1
    /\ agent[last.id].out = <<RegisterLine(agent[last.id]), <<"agent.pong", last.id>>>>

\* C18: an EchoAgent that receives agent.echo emits exactly one
\* agent.echo_response whose payload is the request's payload, after the base
\* dispatch has counted the message and replied nothing.
C18_Echo ==
    [][(/\ Called("receive_message") /\ last'.type = "agent.echo"
        /\ agent[last'.id].echo /\ Running(agent[last'.id]))
       => LET a == last'.id
              m == Msg(NextId(agent[a]), "agent.echo")
          IN  /\ agent'[a].out = Append(agent[a].out, <<"agent.echo_response", m.data>>)
              /\ agent'[a].received = agent[a].received + 1
              /\ agent'[a].sent = agent[a].sent + 1]_vars

C18_Witness ==
    LET ag == agent[TheAgent]
    IN  /\ ag.echo /\ last.type = "agent.echo"
        /\ ag.received = 1
        /\ ag.out = <<RegisterLine(ag), <<"agent.echo_response", "payload">>>>

\* C19: route_message to an id that is not registered is reported and is not
\* fatal: it resumes no agent and leaves the registry, the rotation and every
\* agent's queue and counters unchanged.
C19_RouteUnknown ==
    [][(Called("route_message") /\ last'.id \notin Range(agents))
       => /\ last'.result = "not found"
          /\ agents' = agents
          /\ agent_queue' = agent_queue
          /\ agent' = agent]_vars

C19_Witness ==
    /\ last.op = "route_message" /\ last.result = "not found"
    /\ Len(agents) > 0

\* C20: when serializing an outgoing reply fails, the failure is caught, the
\* errors counter grows by one, nothing is written to the output, and the
\* agent is Running and suspended again, ready for the next message.
C20_SerializationFailure ==
    [][(/\ Called("receive_message") /\ last'.type = "agent.echo_set"
        /\ agent[last'.id].echo /\ Running(agent[last'.id]))
       => LET a == last'.id
          IN  /\ last'.result \in {"queue", "bypass"}
              /\ agent'[a].errors = agent[a].errors + 1
              /\ agent'[a].out = agent[a].out
              /\ Running(agent'[a])
              /\ Path(agent'[a]) # "ignored"]_vars

C20_Witness ==
    LET ag == agent[TheAgent]
    IN  /\ ag.echo /\ Running(ag)
        /\ ag.errors = 1
        /\ ag.handled = <<1, 2>>
        /\ ag.delivered[1][4] = "agent.echo"
        /\ ag.out = <<RegisterLine(ag), <<"agent.pong", TheAgent>>>>

\* C21: get_stats() is a read-only snapshot: it changes no coordinator and no
\* agent state; its count is the registry size and the length of its id list,
\* its bound is the configured bound, and its id list holds exactly the
\* registered ids, each once.
C21_StatsReadOnly ==
    [][Called("get_stats")
       => LET s == last'.result
          IN  /\ agents' = agents /\ agent_queue' = agent_queue
              /\ agent' = agent /\ max_agents' = max_agents
              /\ s.total_agents = Len(agents)
              /\ s.total_agents = Len(s.agent_ids)
              /\ s.max_agents = max_agents
              /\ Range(s.agent_ids) = Range(agents)
              /\ NoDup(s.agent_ids)]_vars

C21_Witness ==
    /\ last.op = "get_stats"
    /\ last.result.total_agents = 2
    /\ Len(agent_queue) = 3
    /\ \E a \in Agents : agent[a].pc = "dead"

\* the places of the agent.register events among the lines agent a has written
RegisterEvents(a) ==
    {i \in 1..Len(agent[a].out) : agent[a].out[i][1] = "agent.register"}

\* C22: each agent emits its agent.register event exactly once, during
\* start(), and that event precedes every other line the agent writes.
C22_RegisterOnce ==
    \A a \in Agents :
        IF agent[a].starts = 0
        THEN agent[a].out = <<>>
        ELSE RegisterEvents(a) = {1}

\* the lines read so far that are JSON text, and the places of those that are not
WellFormed(k) == k # "malformed"

MalformedPlaces ==
    LET bad(i) == ~WellFormed(driver.read[i])
    IN  SelectSeq([i \in 1..Len(driver.read) |-> i], bad)

\* C23: the reference driver never halts on bad input: each malformed line is
\* reported on the error channel and skipped, and every well-formed line,
\* before or after a malformed one, is passed to receive_message, in input order.
C23_DriverNeverHalts ==
    /\ driver.pc # "crashed"
    /\ driver.err = MalformedPlaces
    /\ [i \in 1..Len(agent[TheAgent].delivered) |-> agent[TheAgent].delivered[i][4]]
          = SelectSeq(driver.read, WellFormed)

\* the ids of the messages in a queue, in order
Ids(q) == [i \in 1..Len(q) |-> q[i].id]

\* C24: one schedule() quantum on a non-empty rotation moves the head id to
\* the tail whatever the agent's state (the other ids keep their order, the
\* registry is unchanged) and resumes that agent, with an empty hand-off, only
\* if the id is in the registry and its task has not finished; no other agent
\* is touched.  On an empty rotation schedule() changes nothing.
C24_ScheduleQuantum ==
    [][Called("schedule")
       => IF agent_queue = <<>>
          THEN agents' = agents /\ agent_queue' = agent_queue /\ agent' = agent
          ELSE LET h == Head(agent_queue)
               IN  /\ agent_queue' = Append(Tail(agent_queue), h)
                   /\ agents' = agents
                   /\ \A b \in Agents \ {h} : agent'[b] = agent[b]
                   /\ IF h \in Range(agents) /\ agent[h].pc \notin {"none", "dead"}
                      THEN /\ agent'[h].resumes = agent[h].resumes + 1
                           /\ agent'[h].delivered = agent[h].delivered
                           /\ agent'[h].handled \o Ids(agent'[h].message_queue)
                                 = agent[h].handled \o Ids(agent[h].message_queue)
                      ELSE agent'[h] = agent[h]]_vars

C24_Witness ==
    /\ last.op = "schedule" /\ last.result = "skipped"
    /\ last.id \in Range(agents)
    /\ Len(agent_queue) = 2 /\ NoDup(agent_queue)
    /\ agent_queue[2] = last.id
    /\ agent[agent_queue[1]].pc = "L79"

\* C25: an outside stop() on a Running, suspended agent resumes it exactly
\* once, with an empty hand-off; during that resume no handle_message runs and
\* nothing is written: the task goes from the yield to the loop test, sees the
\* cleared flag and ends, and stop() returns exactly when the task has finished.
C25_OutsideStop ==
    [][\A a \in Agents :
          /\ (Called("stop") /\ last'.id = a /\ Running(agent[a]))
                => /\ caller' = InCall("stop", a)
                   /\ ~agent'[a].running
                   /\ agent'[a].pc = "L81" /\ agent'[a].arg = None
                   /\ agent'[a].resumes = agent[a].resumes + 1
          /\ (caller = InCall("stop", a))
                => /\ agent'[a].resumes = agent[a].resumes
                   /\ agent'[a].handled = agent[a].handled
                   /\ agent'[a].received = agent[a].received
                   /\ agent'[a].out = agent[a].out
                   /\ agent'[a].message_queue = agent[a].message_queue
                   /\ agent'[a].pc \in {"L81", "L68", "dead"}
                   /\ (caller' = IdleCaller) <=> (agent'[a].pc = "dead")]_vars

C25_Witness ==
    /\ caller = IdleCaller
    /\ last.op = "stop"
    /\ agent[last.id].pc = "dead"
    /\ agent[last.id].resumes = 2
    /\ agent[last.id].handled = <<1>>
    /\ agent[last.id].delivered[1][4] = "agent.ping"

\* agent a has handled agent.stop: its flag is cleared by its own handler and
\* its task is still suspended at the yield
StoppedItself(ag) == Alive(ag) /\ ~ag.running /\ ag.stopped

\* the numbers of start() calls an agent can have had
StartCounts == 1..(MaxLiveOps + 1)

\* C26: if an agent has handled agent.stop and the caller keeps invoking
\* schedule(), the task that handled it eventually finishes (it ends, or
\* start() has replaced it), and it has ended at the latest when one full
\* rotation of quanta has gone by since the last other call.
C26_StoppedTaskFinishes ==
    /\ \A a \in Agents : \A n \in StartCounts :
          (StoppedItself(agent[a]) /\ agent[a].starts = n)
             ~> (agent[a].pc = "dead" \/ agent[a].starts > n)
    /\ [](\A a \in Agents :
            (/\ a \in run.alive0 \ run.running0
             /\ run.n > 0 /\ run.n = Len(run.start))
            => agent[a].pc = "dead")

C26_Witness ==
    /\ Len(agent_queue) = 2 /\ NoDup(agent_queue)
    /\ run.n = 2
    /\ \E a \in Range(agents) :
          /\ a \in run.alive0 \ run.running0
          /\ agent[a].pc = "dead"
          /\ agent[a].starts = 1
          /\ agent[a].delivered[Len(agent[a].delivered)][4] = "agent.stop"

\* agent a has handled an agent.stop message
HandledStop(a) ==
    \E i \in 1..Len(agent[a].handled) :
        agent[a].delivered[agent[a].handled[i]][4] = "agent.stop"

\* C27: after an agent has handled agent.stop, no message delivered to it later
\* is passed to handle_message and it writes no further line, whatever its
\* max_queue_size and whatever receive_message and schedule calls follow
\* (the agent is started once and never again).
C27_NothingAfterStop ==
    [][\A a \in Agents :
          (HandledStop(a) /\ agent[a].starts = 1 /\ agent'[a].starts = 1)
          => /\ agent'[a].handled = agent[a].handled
             /\ agent'[a].out = agent[a].out]_vars

C27_Witness ==
    \E a \in Range(agents) :
        /\ agent[a].starts = 1 /\ agent[a].maxlen > 0
        /\ HandledStop(a)
        /\ agent[a].handled = <<1>>
        /\ Len(agent[a].delivered) = 2
        /\ agent[a].delivered[2][2] = "queue"
        /\ agent[a].delivered[2][4] = "agent.ping"
        /\ agent[a].out = <<RegisterLine(agent[a])>>
        /\ agent[a].pc = "dead"

\* C28: when receive_message finds the queue at capacity, the message is not
\* appended; the task is resumed once with the message as hand-off value,
\* handles it first and then every message that was queued, and the queue is
\* empty when the call returns.
C28_BypassFirst ==
    [][(Called("receive_message") /\ last'.result = "bypass")
       => LET a == last'.id
              id == NextId(agent[a])
          IN  /\ id \notin Range(Ids(agent'[a].message_queue))
              /\ agent'[a].resumes = agent[a].resumes + 1
              /\ agent'[a].handled
                    = agent[a].handled \o <<id>> \o Ids(agent[a].message_queue)
              /\ agent'[a].message_queue = <<>>]_vars

\* C29: the queue of an agent is never longer than its max_queue_size, and
\* receive_message evicts no message that is already queued: a message leaves
\* the queue only by being handed to handle_message.
C29_QueueBounded ==
    /\ [](\A a \in Agents : Len(agent[a].message_queue) <= agent[a].maxlen)
    /\ [][Called("receive_message")
          => LET a == last'.id
             IN  Range(Ids(agent[a].message_queue))
                    \subseteq Range(agent'[a].handled)
                               \cup Range(Ids(agent'[a].message_queue))]_vars

C29_Witness ==
    /\ last.op = "receive_message" /\ last.result = "queue"
    /\ agent[TheAgent].maxlen = 3
    /\ Len(agent[TheAgent].message_queue) = 1
    /\ agent[TheAgent].message_queue[1].id \notin Range(agent[TheAgent].handled)

\* C30: sibling isolation: routing a message to agent A, whether its handler
\* succeeds, raises or stops A, changes no other agent (state, queue, counters,
\* output, resumes) and leaves the registry and the rotation unchanged.
C30_SiblingIsolation ==
    [][Called("route_message")
       => /\ agents' = agents
          /\ agent_queue' = agent_queue
          /\ max_agents' = max_agents
          /\ \A b \in Agents \ {last'.id} : agent'[b] = agent[b]]_vars

C30_Witness ==
    /\ last.op = "route_message" /\ last.type = "bad"
    /\ Len(agents) = 2
    /\ agent[last.id].errors = 1
    /\ Running(agent[last.id])
    /\ \E b \in Range(agents) \ {last.id} :
          /\ Running(agent[b])
          /\ agent[b].handled = <<1>> /\ agent[b].resumes = 1

\* C31: handling agent.metrics emits exactly one agent.metrics_response whose
\* counters are the agent's at handling time (received counts the request
\* itself, sent does not count the response) and whose queue_size is the
\* number of messages still pending in the queue.
C31_MetricsResponse ==
    [][(/\ Called("receive_message") /\ last'.type = "agent.metrics"
        /\ Running(agent[last'.id]))
       => LET a == last'.id
          IN  /\ agent'[a].out =
                    Append(agent[a].out,
                           <<"agent.metrics_response", agent[a].received + 1,
                             agent[a].sent, agent[a].errors,
                             Len(agent'[a].message_queue)>>)
              /\ agent'[a].received = agent[a].received + 1
              /\ agent'[a].sent = agent[a].sent + 1
              /\ agent'[a].errors = agent[a].errors]_vars

C31_Witness ==
    LET ag == agent[TheAgent]
    IN  /\ last.op = "receive_message" /\ last.type = "agent.metrics"
        /\ Len(ag.out) = 3
        /\ ag.out[2] = <<"agent.pong", ag.agent_id>>
        /\ ag.out[3] = <<"agent.metrics_response", 2, 2, 0, 0>>
        /\ ag.sent = 3

\* a message that has a kind, which is none of ping, stop and metrics, is
\* delivered to a Running base agent
OtherKindDelivered ==
    /\ Called("receive_message")
    /\ last'.type \in {"other", "agent.echo", "agent.echo_set"}
    /\ ~agent[last'.id].echo
    /\ Running(agent[last'.id])

\* agent record ag after one delivery that was handled, as far as the
\* history fields go
Recorded(ag, ag2) ==
    [ag EXCEPT !.handled = ag2.handled, !.delivered = ag2.delivered,
               !.resumes = ag2.resumes]

\* C32 as claimed: a message of another kind increments the received counter
\* of a base agent by one and changes nothing else.
C32_OtherKindOnlyCounts ==
    [][OtherKindDelivered
       => LET a == last'.id
          IN  agent'[a] = [Recorded(agent[a], agent'[a])
                              EXCEPT !.received = @ + 1]]_vars

\* C32 as amended: a message of another kind increments the received counter
\* of a base agent by one and sets its last-message time to the time of the
\* handling; it changes nothing else: no reply, no output, no error, nothing
\* queued, and the agent is Running and suspended as before.
C32_OtherKindNoOp ==
    [][OtherKindDelivered
       => LET a == last'.id
          IN  /\ agent'[a] = [Recorded(agent[a], agent'[a])
                                 EXCEPT !.received = @ + 1,
                                        !.last_message_time = Now(agent[a])]
              /\ agent'[a].last_message_time # agent[a].last_message_time
              /\ agent'[a].handled = Append(agent[a].handled, NextId(agent[a]))]_vars

C32_Witness ==
    LET ag == agent[TheAgent]
    IN  /\ last.op = "receive_message" /\ last.type = "other"
        /\ ~ag.echo /\ Running(ag)
        /\ ag.handled = <<1, 2>>
        /\ ag.delivered[1][4] = "agent.ping"
        /\ ag.received = 2 /\ ag.sent = 2 /\ ag.errors = 0
        /\ ag.last_message_time = 2

\* C33: whenever a Running agent is suspended awaiting a resume, control being
\* with the driving caller, its queue is empty; so with max_queue_size >= 1
\* its queue is not at capacity when the caller calls receive_message.
C33_SuspendedQueueEmpty ==
    \A a \in Agents :
        (caller = IdleCaller /\ Running(agent[a]))
        => /\ agent[a].message_queue = <<>>
           /\ agent[a].maxlen >= 1 => Path(agent[a]) = "queue"

C33_Witness ==
    /\ caller = IdleCaller
    /\ \E a \in Agents :
          /\ Running(agent[a]) /\ agent[a].maxlen >= 1
          /\ agent[a].handled = <<1, 2>>
          /\ agent[a].delivered[2][2] = "queue"

\* C34: a schedule() quantum never makes handle_message run: it leaves every
\* agent's received, sent and errors counters, its output and the messages
\* it has handled unchanged.
C34_ScheduleHandlesNothing ==
    [][Called("schedule")
       => \A a \in Agents :
             /\ agent'[a].handled = agent[a].handled
             /\ agent'[a].received = agent[a].received
             /\ agent'[a].sent = agent[a].sent
             /\ agent'[a].errors = agent[a].errors
             /\ agent'[a].out = agent[a].out
             /\ agent'[a].message_queue = agent[a].message_queue]_vars

C34_Witness ==
    /\ last.op = "schedule" /\ last.result = "resumed"
    /\ Running(agent[last.id])
    /\ agent[last.id].handled = <<1>>
    /\ agent[last.id].resumes = 2

\* C35: every call the driving caller makes returns control to the caller;
\* when it returns, the task it switched to is suspended at its yield or has
\* finished, and while the caller holds control no task executes.
C35_EveryCallReturns ==
    /\ (caller # IdleCaller) ~> (caller = IdleCaller)
    /\ [](caller = IdleCaller
            => \A a \in Agents : agent[a].pc \in {"none", "L79", "dead"})
    /\ [][(caller # IdleCaller /\ caller' = IdleCaller)
            => agent'[caller.id].pc \in {"L79", "dead"}]_vars

C35_Witness ==
    /\ caller = IdleCaller
    /\ nops = MaxStepOps
    /\ \E a, b \in Range(agents) :
          /\ a # b
          /\ agent[a].pc = "dead" /\ agent[a].stopped
          /\ agent[b].pc = "L79" /\ agent[b].errors = 1

\* C36: an agent that stopped itself by handling agent.stop is not removed by
\* the coordinator: until unregister_agent is called for its id it stays in the
\* registry and in the rotation and the registry does not shrink, and a
\* register_agent call on a registry that is full, even of such agents, fails
\* with the capacity error and adds nothing.
C36_SelfStoppedStaysRegistered ==
    [][/\ \A a \in Agents :
             (/\ HandledStop(a) /\ a \in Range(agents)
              /\ ~(Called("unregister_agent") /\ last'.id = a))
             => /\ a \in Range(agents')
                /\ a \in Range(agent_queue) /\ a \in Range(agent_queue')
       /\ (/\ Called("register_agent")
           /\ Len(agents) = max_agents
           /\ \A a \in Range(agents) : HandledStop(a) /\ ~agent[a].running)
             => /\ last'.result = "ValueError"
                /\ agents' = agents /\ agent_queue' = agent_queue]_vars

C36_Witness ==
    /\ last.op = "register_agent" /\ last.result = "ValueError"
    /\ max_agents = 1 /\ Len(agents) = 1
    /\ last.id \notin Range(agents)
    /\ HandledStop(agents[1])
    /\ ~agent[agents[1]].running
    /\ agents[1] \in Range(agent_queue)

\* C37: receive_message on an agent that has no live task (never started, or
\* its task has finished) does nothing: the message is neither queued nor
\* handled, no counter and no flag changes, nothing is written, the call
\* returns normally.
C37_NoLiveTaskNoEffect ==
    [][(Called("receive_message") /\ agent[last'.id].pc \in {"none", "dead"})
       => LET a == last'.id
          IN  /\ last'.result = "ignored"
              /\ agent'[a] = [agent[a] EXCEPT !.delivered = agent'[a].delivered]
              /\ \A b \in Agents \ {a} : agent'[b] = agent[b]]_vars

C37_Witness ==
    LET ag == agent[TheAgent]
    IN  /\ last.op = "receive_message" /\ last.result = "ignored"
        /\ ag.pc = "dead" /\ ag.starts = 1
        /\ ag.maxlen = 3
        /\ ag.delivered[Len(ag.delivered)][4] = "agent.ping"
        /\ ag.received = 0 /\ ag.message_queue = <<>>
        /\ ag.out = <<RegisterLine(ag)>>

\* C38: for an agent started once, base or echo, the counters never decrease
\* and messages_sent <= messages_received + 1 in every reachable state: one
\* registration event and at most one reply for each handled message.
C38_CountersBounded ==
    /\ [](\A a \in Agents :
            agent[a].starts <= 1 => agent[a].sent <= agent[a].received + 1)
    /\ [][\A a \in Agents :
            agent'[a].starts <= 1
            => /\ agent'[a].received >= agent[a].received
               /\ agent'[a].sent >= agent[a].sent
               /\ agent'[a].errors >= agent[a].errors]_vars

C38_Witness ==
    LET ag == agent[TheAgent]
    IN  /\ ag.echo /\ ag.starts = 1
        /\ ag.received = 3 /\ ag.sent = 4
        /\ ag.errors = 1
        /\ \E i \in 1..Len(ag.out) : ag.out[i][1] = "agent.pong"
        /\ \E i \in 1..Len(ag.out) : ag.out[i][1] = "agent.echo_response"

\* C39: an agent's messages_sent counter equals the number of lines the agent
\* has written to its output, in every reachable state, also after a reply
\* whose serialization failed.
C39_SentIsLinesWritten ==
    \A a \in Agents : agent[a].sent = Len(agent[a].out)

====
